---- MODULE Spec2Model ----
(***************************************************************************)
(* Model of src/eflags.h: the EnumFlags<Enum> bit container, the enum      *)
(* operators | and &, and the two enumerations TEST_V1 (char) and TEST_V2  *)
(* (int) that the self test instantiates it with.                          *)
(*                                                                         *)
(* Masks are C++ integer values.  The bitwise operators are computed on    *)
(* two's complement integers after integer promotion, and every store     *)
(* into the mask converts back to the underlying type of the enumeration.  *)
(***************************************************************************)
EXTENDS Integers, Sequences, FiniteSets, TLC

VARIABLES flags, last, ret, scen, charSigned

vars == <<flags, last, ret, scen, charSigned>>

(* Largest number of arguments given to a variadic constructor or set. *)
MaxArgs == 3

-----------------------------------------------------------------------------
(* Integer arithmetic of the build *)

(* a << n *)
Shl(a, n) == a * 2^n

RECURSIVE BitAnd(_, _)
(* x & y on two's complement ints *)
BitAnd(x, y) ==
    IF x = 0 \/ y = 0 THEN 0
    ELSE IF x = -1 THEN y
    ELSE IF y = -1 THEN x
    ELSE (x % 2) * (y % 2) + 2 * BitAnd(x \div 2, y \div 2)

RECURSIVE BitOr(_, _)
(* x | y on two's complement ints *)
BitOr(x, y) ==
    IF x = 0 THEN y
    ELSE IF y = 0 THEN x
    ELSE IF x = -1 \/ y = -1 THEN -1
    ELSE (IF x % 2 = 1 \/ y % 2 = 1 THEN 1 ELSE 0) + 2 * BitOr(x \div 2, y \div 2)

(* ~x on two's complement ints *)
BitNot(x) == -x - 1

(* static_cast<std::underlying_type_t<Enum>>(v) of an int v; T is the      *)
(* underlying type.  Plain char is signed or unsigned as the build decides. *)
Cast(T, v) ==
    IF T = "char"
    THEN IF charSigned THEN ((v + 128) % 256) - 128 ELSE v % 256
    ELSE v

-----------------------------------------------------------------------------
(* The enumerations of the self test *)

TEST_V1 == [one |-> Shl(1, 0), two |-> Shl(1, 1), three |-> Shl(1, 2)]

TEST_V2 == [one |-> Shl(1, 0), two |-> Shl(1, 1), three |-> Shl(1, 2)]

(* The two containers of debug_test. *)
Objs == {"flags1", "flags2"}

Enum(o) == IF o = "flags1" THEN TEST_V1 ELSE TEST_V2

Underlying(o) == IF o = "flags1" THEN "char" ELSE "int"

Names == DOMAIN TEST_V1

(* operator|(lhs, rhs) *)
EnumOr(T, lhs, rhs) == Cast(T, BitOr(Cast(T, lhs), Cast(T, rhs)))

(* operator&(lhs, rhs) *)
EnumAnd(T, lhs, rhs) == Cast(T, BitAnd(Cast(T, lhs), Cast(T, rhs)))

(* An argument expression is a set S of enumerator names: the enumerator   *)
(* itself, E::a | E::b | ... for several, and E::one & E::two for none.    *)
ArgExprs == SUBSET Names

RECURSIVE Value(_, _)
Value(o, S) ==
    IF S = {} THEN EnumAnd(Underlying(o), Enum(o).one, Enum(o).two)
    ELSE LET n == CHOOSE n \in S : TRUE
         IN  IF S = {n} THEN Enum(o)[n]
             ELSE EnumOr(Underlying(o), Value(o, S \ {n}), Enum(o)[n])

(* Argument lists of the variadic overloads, each argument one enumerator  *)
(* as in debug_test; overload resolution sends a single argument to the    *)
(* non-template overload, so the lists have no length 1.                   *)
ArgLists == UNION {[1..n -> {{x} : x \in Names}] : n \in 2..MaxArgs}

Values(o, args) == [i \in 1..Len(args) |-> Value(o, args[i])]

-----------------------------------------------------------------------------
(* EnumFlags<Enum> *)

(* EnumFlags() *)
ConstructDefault(T) == Cast(T, 0)

(* EnumFlags(Enum flag) *)
ConstructSingle(T, flag) == Cast(T, flag)

RECURSIVE FoldOr(_)
(* (static_cast<U>(flags) | ...) *)
FoldOr(vs) == IF Len(vs) = 1 THEN vs[1] ELSE BitOr(vs[1], FoldOr(Tail(vs)))

(* Variant: only the first argument initialises the mask. *)
ConstructVariadic_First(T, vs) == Cast(T, vs[1])

(* EnumFlags(Enums... flags) *)
ConstructVariadic(T, vs) == Cast(T, FoldOr(vs))

(* Variant: flags &= flag *)
Set_And(T, m, flag) == Cast(T, BitAnd(m, Cast(T, flag)))

(* Variant: flags = flag *)
Set_Assign(T, m, flag) == Cast(T, flag)

(* Variant: flags ^= flag *)
Set_Xor(T, m, flag) ==
    Cast(T, BitAnd(BitOr(m, Cast(T, flag)), BitNot(BitAnd(m, Cast(T, flag)))))

(* set(Enum flag): flags |= flag *)
Set(T, m, flag) == Cast(T, BitOr(m, Cast(T, flag)))

(* Variant: only the first argument of the pack is set. *)
SetVariadic_First(T, m, vs) ==
    IF vs = <<>> THEN m ELSE Cast(T, BitOr(m, Cast(T, Head(vs))))

RECURSIVE SetVariadic(_, _, _)
(* set(Enums... flags): (set(flags), ...) *)
SetVariadic(T, m, vs) ==
    IF vs = <<>> THEN m ELSE SetVariadic(T, Set(T, m, Head(vs)), Tail(vs))

(* Variant: flags &= flag *)
Reset_NoComplement(T, m, flag) == Cast(T, BitAnd(m, Cast(T, flag)))

(* Variant: flags = ~flag *)
Reset_AssignComplement(T, m, flag) == Cast(T, BitNot(Cast(T, flag)))

(* reset(Enum flag): flags &= ~flag *)
Reset(T, m, flag) == Cast(T, BitAnd(m, BitNot(Cast(T, flag))))

(* hasFlag(Enum flag) *)
HasFlag(T, m, flag) == BitAnd(m, Cast(T, flag)) # 0

(* Variant: flags == 0 *)
OperatorBool_Inverted(m) == m = 0

(* explicit operator bool() *)
OperatorBool(m) == m # 0

-----------------------------------------------------------------------------
(* The call script of debug_test, the same for flags1 and flags2 *)

Scenario ==
    << [op |-> "set",         args |-> << {"one"} >>],
       [op |-> "setVariadic", args |-> << {"two"}, {"three"} >>],
       [op |-> "reset",       args |-> << {"two"} >>],
       [op |-> "reset",       args |-> << {"one", "two", "three"} >>] >>

(* Position in the script after one more call; -1 once a call left it. *)
Advance(s, op, args) ==
    IF s \in 0..(Len(Scenario) - 1) /\ Scenario[s + 1] = [op |-> op, args |-> args]
    THEN s + 1
    ELSE -1

-----------------------------------------------------------------------------
(* State machine.  debug_test drives flags1 and flags2 with the same calls, *)
(* and the containers share no state: a step is one call made on both.     *)

(* The record of a call: its arguments, the masks it found, and whether it *)
(* repeats the call made just before it.                                   *)
Call(op, args) ==
    [op |-> op, args |-> args, pre |-> flags,
     again |-> (last.op = op /\ last.args = args)]

Init ==
    /\ charSigned \in BOOLEAN
    /\ flags = [o \in Objs |-> ConstructDefault(Underlying(o))]
    /\ last = [op |-> "ctor", args |-> <<>>, pre |-> flags, again |-> FALSE]
    /\ ret = [o \in Objs |-> FALSE]
    /\ scen = 0

DoConstructDefault ==
    /\ flags' = [o \in Objs |-> ConstructDefault(Underlying(o))]
    /\ last' = Call("ctor", <<>>)
    /\ ret' = [o \in Objs |-> FALSE]
    /\ scen' = 0
    /\ UNCHANGED charSigned

DoConstructSingle(a) ==
    /\ flags' = [o \in Objs |-> ConstructSingle(Underlying(o), Value(o, a))]
    /\ last' = Call("ctor", <<a>>)
    /\ ret' = [o \in Objs |-> FALSE]
    /\ scen' = -1
    /\ UNCHANGED charSigned

DoConstructVariadic(args) ==
    /\ flags' = [o \in Objs |-> ConstructVariadic(Underlying(o), Values(o, args))]
    /\ last' = Call("ctor", args)
    /\ ret' = [o \in Objs |-> FALSE]
    /\ scen' = -1
    /\ UNCHANGED charSigned

DoSet(a) ==
    /\ flags' = [o \in Objs |-> Set(Underlying(o), flags[o], Value(o, a))]
    /\ last' = Call("set", <<a>>)
    /\ ret' = [o \in Objs |-> FALSE]
    /\ scen' = Advance(scen, "set", <<a>>)
    /\ UNCHANGED charSigned

DoSetVariadic(args) ==
    /\ flags' = [o \in Objs |-> SetVariadic(Underlying(o), flags[o], Values(o, args))]
    /\ last' = Call("setVariadic", args)
    /\ ret' = [o \in Objs |-> FALSE]
    /\ scen' = Advance(scen, "setVariadic", args)
    /\ UNCHANGED charSigned

DoReset(a) ==
    /\ flags' = [o \in Objs |-> Reset(Underlying(o), flags[o], Value(o, a))]
    /\ last' = Call("reset", <<a>>)
    /\ ret' = [o \in Objs |-> FALSE]
    /\ scen' = Advance(scen, "reset", <<a>>)
    /\ UNCHANGED charSigned

DoHasFlag(a) ==
    /\ ret' = [o \in Objs |-> HasFlag(Underlying(o), flags[o], Value(o, a))]
    /\ last' = Call("hasFlag", <<a>>)
    /\ UNCHANGED <<flags, scen, charSigned>>

DoOperatorBool ==
    /\ ret' = [o \in Objs |-> OperatorBool(flags[o])]
    /\ last' = Call("bool", <<>>)
    /\ UNCHANGED <<flags, scen, charSigned>>

Next ==
    \/ DoConstructDefault
    \/ \E a \in ArgExprs : DoConstructSingle(a)
    \/ \E args \in ArgLists : DoConstructVariadic(args)
    \/ \E a \in ArgExprs : DoSet(a)
    \/ \E args \in ArgLists \cup {<<>>} : DoSetVariadic(args)
    \/ \E a \in ArgExprs : DoReset(a)
    \/ \E a \in ArgExprs : DoHasFlag(a)
    \/ DoOperatorBool

Spec == Init /\ [][Next]_vars

-----------------------------------------------------------------------------
(* Vocabulary of the properties *)

IntBits == 32

(* Bit i of the two's complement int v. *)
BitAt(v, i) == IF i = IntBits - 1 THEN v < 0 ELSE (v \div 2^i) % 2 = 1

(* The positions of the bits set in v. *)
Bits(v) == {i \in 0..(IntBits - 1) : BitAt(v, i)}

(* The bits of all declared enumerators of the container's enumeration. *)
DeclaredBits(o) == UNION {Bits(Enum(o)[n]) : n \in Names}

(* hasFlag of the enumerator named n, on mask m of container o. *)
Has(o, m, n) == HasFlag(Underlying(o), m, Enum(o)[n])

(* The argument of the last one-argument call. *)
Arg == last.args[1]

(* Single-flag set called once per element of vs, in the order of vs. *)
RECURSIVE SetEach(_, _, _)
SetEach(o, m, vs) ==
    IF vs = <<>> THEN m
    ELSE SetEach(o, Set(Underlying(o), m, Head(vs)), Tail(vs))

Perms(n) == {p \in [1..n -> 1..n] : \A i, j \in 1..n : p[i] = p[j] => i = j}

Permuted(vs, p) == [i \in 1..Len(vs) |-> vs[p[i]]]

(* hasFlag(one), hasFlag(two), hasFlag(three) on container o. *)
Observed(o) == <<Has(o, flags[o], "one"), Has(o, flags[o], "two"), Has(o, flags[o], "three")>>

-----------------------------------------------------------------------------
(* Properties *)

(* C1: hasFlag(flag) returns true iff every bit set in flag's underlying   *)
(* value is also set in the mask, for single-bit, zero-valued and          *)
(* multi-bit arguments alike.                                              *)
C1_HasFlagAllBits ==
    last.op = "hasFlag" =>
        \A o \in Objs : ret[o] = (Bits(Value(o, Arg)) \subseteq Bits(flags[o]))

(* C2: after set(f) of a single-bit flag f, hasFlag(f) is true and         *)
(* hasFlag(g) is false for every other single-bit flag g that was not set  *)
(* immediately before the call.                                            *)
C2_SetSingle ==
    (last.op = "set" /\ Cardinality(Arg) = 1) =>
        \A o \in Objs :
            /\ HasFlag(Underlying(o), flags[o], Value(o, Arg))
            /\ \A g \in Names \ Arg :
                   ~Has(o, last.pre[o], g) => ~Has(o, flags[o], g)

C2_Witness ==
    /\ last.op = "set" /\ Cardinality(Arg) = 1
    /\ \A o \in Objs :
           /\ \E g \in Names \ Arg : Has(o, last.pre[o], g)
           /\ \E g \in Names \ Arg : ~Has(o, last.pre[o], g)
           /\ flags[o] # last.pre[o]

(* C3: reset(v), v one flag or the OR of several, clears every single-bit  *)
(* flag contained in v and leaves hasFlag of every other single-bit flag   *)
(* as it was before the call.                                              *)
C3_Reset ==
    last.op = "reset" =>
        \A o \in Objs : \A g \in Names :
            IF Bits(Enum(o)[g]) \subseteq Bits(Value(o, Arg))
            THEN ~Has(o, flags[o], g)
            ELSE Has(o, flags[o], g) = Has(o, last.pre[o], g)

C3_Witness ==
    /\ last.op = "reset" /\ Cardinality(Arg) = 2
    /\ \A o \in Objs :
           /\ \A g \in Names : Has(o, last.pre[o], g)
           /\ \E g \in Names : Has(o, flags[o], g)

(* C4: the variadic set yields the mask that single-flag set called once   *)
(* per argument yields, in every permutation of the arguments; and         *)
(* set(f); set(g) yields the mask of set(g); set(f) for any flags f, g.    *)
C4_SetOrder ==
    /\ last.op = "setVariadic" =>
           \A o \in Objs : \A p \in Perms(Len(last.args)) :
               flags[o] = SetEach(o, last.pre[o], Permuted(Values(o, last.args), p))
    /\ last.op = "set" =>
           \A o \in Objs : \A g \in ArgExprs :
               Set(Underlying(o), flags[o], Value(o, g))
                 = Set(Underlying(o), Set(Underlying(o), last.pre[o], Value(o, g)),
                       Value(o, Arg))

C4_Witness ==
    /\ last.op = "setVariadic" /\ Len(last.args) >= 2
    /\ last.args[1] # last.args[2]
    /\ \A o \in Objs : last.pre[o] # 0 /\ flags[o] # last.pre[o]

(* C5: set and reset are idempotent: a set or reset that repeats the call  *)
(* before it leaves the mask as that call left it, setting a flag that is  *)
(* already set leaves the mask unchanged, and so does resetting a flag     *)
(* that is already clear.                                                  *)
C5_Idempotent ==
    /\ (last.op \in {"set", "reset"} /\ last.again) => flags = last.pre
    /\ last.op = "set" =>
           \A o \in Objs :
               Bits(Value(o, Arg)) \subseteq Bits(last.pre[o]) => flags[o] = last.pre[o]
    /\ last.op = "reset" =>
           \A o \in Objs :
               Bits(Value(o, Arg)) \cap Bits(last.pre[o]) = {} => flags[o] = last.pre[o]

C5_Witness ==
    /\ last.op = "set" /\ last.again /\ Arg # {}
    /\ \A o \in Objs : Bits(flags[o]) # Bits(Value(o, Arg))

(* C6: the boolean conversion is true iff the mask is non-zero: false for  *)
(* a container with no flag set (default-constructed or with every flag    *)
(* reset), true for a container with at least one flag set.                *)
C6_Bool ==
    last.op = "bool" =>
        \A o \in Objs :
            /\ ret[o] = (Bits(flags[o]) # {})
            /\ ret[o] = (\E g \in Names : Has(o, flags[o], g))

C6_Witness ==
    /\ last.op = "bool" /\ scen = 3
    /\ \A o \in Objs : ret[o]

(* C7: construction from N >= 0 flags produces the OR of the arguments'    *)
(* underlying values (0 when N = 0), the state that construct() followed   *)
(* by set(f1, ..., fN) produces; for single-bit arguments hasFlag(g) is    *)
(* then true exactly for the flags g among the arguments.                  *)
C7_Construct ==
    last.op = "ctor" =>
        \A o \in Objs :
            /\ flags[o] = SetEach(o, ConstructDefault(Underlying(o)), Values(o, last.args))
            /\ Bits(flags[o]) = UNION {Bits(Value(o, last.args[i])) : i \in 1..Len(last.args)}
            /\ (\A i \in 1..Len(last.args) : Cardinality(last.args[i]) = 1) =>
                   \A g \in Names :
                       Has(o, flags[o], g) = (\E i \in 1..Len(last.args) : last.args[i] = {g})

C7_Witness ==
    /\ last.op = "ctor" /\ Len(last.args) >= 2
    /\ last.args[1] # last.args[2]
    /\ \A o \in Objs : last.pre[o] # flags[o]

(* C8: with every argument a declared member of E or an OR of declared     *)
(* members, the mask never holds a bit outside the union of the declared   *)
(* enumeration values, for the 8-bit container as for the wider one.       *)
C8_MaskWithinDeclared ==
    \A o \in Objs : Bits(flags[o]) \subseteq DeclaredBits(o)

C8_Witness ==
    /\ last.op = "reset" /\ Arg # {}
    /\ flags["flags1"] # 0
    /\ flags["flags1"] # last.pre["flags1"]

(* C9: the 8-bit and the wider container, given the same calls, agree on   *)
(* hasFlag of every flag and on the boolean conversion after every call;   *)
(* the script set(one); set(two, three); reset(two);                       *)
(* reset(one | two | three) shows {1,0,0}, {1,1,1}, {1,0,1}, {0,0,0} on    *)
(* both.                                                                   *)
C9_WidthIndependent ==
    /\ \A a \in ArgExprs :
           HasFlag(Underlying("flags1"), flags["flags1"], Value("flags1", a))
             = HasFlag(Underlying("flags2"), flags["flags2"], Value("flags2", a))
    /\ OperatorBool(flags["flags1"]) = OperatorBool(flags["flags2"])
    /\ \A o \in Objs :
           /\ scen = 1 => Observed(o) = <<TRUE, FALSE, FALSE>>
           /\ scen = 2 => Observed(o) = <<TRUE, TRUE, TRUE>>
           /\ scen = 3 => Observed(o) = <<TRUE, FALSE, TRUE>>
           /\ scen = 4 => Observed(o) = <<FALSE, FALSE, FALSE>>

C9_Witness ==
    /\ scen = 4
    /\ last.op = "reset"
    /\ last.pre["flags1"] # 0 /\ last.pre["flags2"] # 0
====
